---- MODULE Spec2Model ----
(***************************************************************************)
(* Remote resolution and activation of the visibility host:                *)
(*   loadRemoteManifest   apps/visibility/src/app/remotes/loadManifest.ts  *)
(*   loadRemote, loadRemoteWithRetry, resolveRemoteUrl, isRemoteModule     *)
(*                        unnamed/part_005 (loadRemotes.ts)                *)
(*   RemoteSlot           apps/visibility/src/app/remotes/RemoteSlot.tsx   *)
(* The JavaScript event loop is single threaded: every action below is one *)
(* run-to-completion step between two suspension points (await).           *)
(***************************************************************************)
EXTENDS Integers, Sequences, FiniteSets, TLC

(* ------------------------------ bounds -------------------------------- *)

\* number of effect runs one RemoteSlot goes through (first run + re-runs)
MaxRuns == 2
\* largest maxRetries option a direct caller of loadRemoteWithRetry passes
MaxRetriesBound == 2

Runs == 1..MaxRuns

(* ------------------------- program constants -------------------------- *)

\* options RemoteSlot passes to loadRemoteWithRetry
SlotMaxRetries == 1
SlotRetryDelayMs == 1000
SlotTimeoutMs == 10000
\* defaults of loadRemoteWithRetry
DefaultMaxRetries == 3
DefaultRetryDelayMs == 1000
DefaultTimeoutMs == 10000

(* ------------------------------ values -------------------------------- *)

\* An Error object: message, the remote name its text embeds ("" when it
\* embeds none), and for the final error of loadRemoteWithRetry the attempt
\* count and the last attempt's message that its text embeds.
Err(m) == [msg |-> m, attempts |-> 0, last |-> "", remote |-> ""]
NoErr == Err("")

\* an Error whose message embeds ${remoteName}
NamedErr(m, name) == [Err(m) EXCEPT !.remote = name]

\* `Failed to load remote "${remoteName}" after ${maxRetries + 1} attempts: ${lastError?.message}`
FinalError(maxRetries, lastError, name) ==
  [msg |-> "Failed to load remote after attempts", attempts |-> maxRetries + 1,
   last |-> lastError.msg, remote |-> name]

\* Values a dynamic import (or any candidate handed to isRemoteModule) can be.
\* kind: "null", "object", "function" or a primitive's type ("none": no
\* value); mount, unmount: "absent" (not in the object), or the kind of the
\* property's value: "function", "undefined" (present, value undefined),
\* "null", "string".
\* mountThrows, unmountThrows: whether calling the function throws.
Candidate(k, m, u, t, v) ==
  [kind |-> k, mount |-> m, unmount |-> u, mountThrows |-> t, unmountThrows |-> v]
NoMod == Candidate("none", "absent", "absent", FALSE, FALSE)
ModFull == Candidate("object", "function", "function", FALSE, FALSE)
ModNoUnmount == Candidate("object", "function", "absent", FALSE, FALSE)
ModThrowing == Candidate("object", "function", "function", TRUE, FALSE)
ModUnmountThrows == Candidate("object", "function", "function", FALSE, TRUE)
ModNoMount == Candidate("object", "absent", "absent", FALSE, FALSE)
ModBadUnmount == Candidate("object", "function", "string", FALSE, FALSE)

\* what import(url) may settle with, NoMod standing for a rejection: for a
\* direct call of loadRemoteWithRetry, and (a smaller set) for a slot's run
RetryImports == {ModFull, ModNoUnmount, ModNoMount, ModBadUnmount, NoMod}
SlotImports == {ModFull, ModNoUnmount, ModThrowing, ModUnmountThrows, ModNoMount}

\* typeof v for a value of kind v (typeof null is 'object')
TypeOf(v) == IF v = "null" THEN "object" ELSE v

\* variant of isRemoteModule: any non-null object passes
isRemoteModuleAnyObject(mod) ==
  /\ TypeOf(mod.kind) = "object"
  /\ mod.kind # "null"

\* variant of isRemoteModule: unmount is not looked at
isRemoteModuleMountOnly(mod) ==
  /\ TypeOf(mod.kind) = "object"
  /\ mod.kind # "null"
  /\ mod.mount # "absent"
  /\ TypeOf(mod.mount) = "function"

\* isRemoteModule(mod): typeof mod === 'object' && mod !== null &&
\* 'mount' in mod && typeof mod.mount === 'function' &&
\* (!('unmount' in mod) || typeof mod.unmount === 'function')
isRemoteModule(mod) ==
  /\ TypeOf(mod.kind) = "object"
  /\ mod.kind # "null"
  /\ mod.mount # "absent"
  /\ TypeOf(mod.mount) = "function"
  /\ (~(mod.unmount # "absent") \/ TypeOf(mod.unmount) = "function")

(* ------------------------------ manifest ------------------------------ *)

\* JSON payloads the manifest resource may deliver, by identity.
\*   P_noRemotes   {}
\*   P_A           {remotes: {status: {current: "u1", next: "u2"}}}
\*   P_B           {remotes: {status: {current: "u3"}, broken: {}}}
Payloads == {"P_noRemotes", "P_A", "P_B"}
Null == "null"

RemoteNames == {"status", "broken", "ghost"}
Variants == {"current", "next"}

\* json.remotes is truthy
HasRemotes(p) == p \in {"P_A", "P_B"}

\* json.remotes[name][variant], "" when undefined
Address(p, name, variant) ==
  CASE p = "P_A" /\ name = "status" /\ variant = "current" -> "u1"
    [] p = "P_A" /\ name = "status" /\ variant = "next" -> "u2"
    [] p = "P_B" /\ name = "status" /\ variant = "current" -> "u3"
    [] OTHER -> ""

\* manifest.remotes[name] is truthy
HasRemote(p, name) ==
  \/ p \in {"P_A", "P_B"} /\ name = "status"
  \/ p = "P_B" /\ name = "broken"

\* every remote entry of the payload has a usable (non-empty) address
AllEntriesUsable(p) ==
  \A n \in RemoteNames : HasRemote(p, n) => \E v \in Variants : Address(p, n, v) # ""

(* ------------------------------- state -------------------------------- *)

VARIABLES
  cachedManifest, \* loadManifest.ts: module-level cache, Null or a payload
  fetchCount,     \* history: fetch() calls issued for the manifest resource
  pc,             \* per run: position of the run's asynchronous function
  mres,           \* per run: the promise loadRemoteManifest() returned
  rname,          \* per run: remoteName argument
  rctx,           \* per run: ctx.rollout ("none" when undefined)
  opts,           \* per run: options of loadRemoteWithRetry
  attempt,        \* per run: loop variable of loadRemoteWithRetry
  lastError,      \* per run: lastError of loadRemoteWithRetry
  loading,        \* per run: attempts whose import() has not settled
  lres,           \* per run: the promise loadRemoteWithRetry() returned
  started,        \* history: loadRemote calls (attempts started) per run
  outcomes,       \* history: result of each settled race per run ("ok" and
                  \* the module, or the error message)
  waits,          \* history: backoff delays passed to setTimeout per run
  imported,       \* history: import(url) calls of loadRemote per run, each
                  \* with the attempt that made it and its url
  cancelled,      \* RemoteSlot effect: let cancelled
  cleanup,        \* RemoteSlot effect: module the cleanup callback closes over
  elParent,       \* RemoteSlot effect: el's parent div (0 none, -1 removed)
  log,            \* history: what each run did, in order: "mount" (mod.mount
                  \* called), "cleanupSet", "setMounted", "setError", the
                  \* teardown's "cancel", "unmount", "remove", and "return<line>"
                  \* for a return at a cancelled test
  state,          \* RemoteSlot: useState<SlotState>
  containerRef,   \* RemoteSlot: containerRef.current (0 when null)
  nextDiv,        \* fresh id for the next container div React creates
  cur,            \* the effect run currently active (0 before the first)
  alive,          \* the RemoteSlot component is mounted in the host
  head,           \* document.head: the stylesheet <link> elements in it
  cssCalls,       \* history: the loadCss calls made, each with its promise
  arg,            \* the candidate handed to a function called on its own
  ret,            \* what that call returned (<<>> before it returns)
  rootRegistry,   \* visibility.tsx: rootRegistry, element -> root (0: no entry)
  statusRoot,     \* status.tsx: let root (0 when null)
  roots,          \* the React roots createRoot has returned, by id
  lastCall,       \* history: the latest mount/unmount call and how it ended
  ncalls,         \* history: number of mount/unmount calls made
  sib             \* the RemoteSlot components rendered side by side, by id

manifestVars == <<cachedManifest, fetchCount, mres>>
argVars == <<rname, rctx, opts>>
retryVars == <<attempt, lastError, loading, lres, started, outcomes, waits, imported>>
runVars == <<cancelled, cleanup, elParent, log>>
slotVars == <<state, containerRef, nextDiv, cur, alive>>
shellVars == <<rootRegistry, statusRoot, roots, lastCall, ncalls, sib>>
envVars == <<head, cssCalls, arg, ret, shellVars>>
vars == <<pc, manifestVars, argVars, retryVars, runVars, slotVars, envVars>>

Pending == [status |-> "pending", value |-> Null, mod |-> NoMod, error |-> NoErr]
ResolvedManifest(p) == [status |-> "resolved", value |-> p, mod |-> NoMod, error |-> NoErr]
ResolvedModule(m) == [status |-> "resolved", value |-> Null, mod |-> m, error |-> NoErr]
Rejected(e) == [status |-> "rejected", value |-> Null, mod |-> NoMod, error |-> e]

NoOpts == [maxRetries |-> 0, retryDelayMs |-> 0, timeoutMs |-> 0]
SlotOpts == [maxRetries |-> SlotMaxRetries, retryDelayMs |-> SlotRetryDelayMs, timeoutMs |-> SlotTimeoutMs]

SlotState(s) == [status |-> s, stage |-> "", error |-> NoErr]
SlotError(e) == [status |-> "error", stage |-> "load", error |-> e]

(* --------------------------- loadManifest.ts -------------------------- *)

\* line 13: if (cachedManifest) return cachedManifest
CacheHit == cachedManifest # Null

\* lines 17-21 on the parsed payload p: the promise the call settles with
ValidateManifest(p) ==
  IF ~HasRemotes(p) THEN Rejected(Err("Invalid remote manifest"))
  ELSE ResolvedManifest(p)

\* synchronous part of loadRemoteManifest() called by run r (lines 13-15)
CallLoadRemoteManifest(r) ==
  IF CacheHit
    THEN /\ mres' = [mres EXCEPT ![r] = ResolvedManifest(cachedManifest)]
         /\ pc' = [pc EXCEPT ![r] = "manifestDone"]
         /\ UNCHANGED <<cachedManifest, fetchCount>>
    ELSE /\ fetchCount' = fetchCount + 1
         /\ pc' = [pc EXCEPT ![r] = "fetching"]
         /\ UNCHANGED <<cachedManifest, mres>>

\* await fetch(...) settles (lines 15-16)
FetchSettle(r) ==
  /\ pc[r] = "fetching"
  /\ \E resp \in {"networkError", "notOk", "ok"} :
       CASE resp = "networkError" ->
              /\ mres' = [mres EXCEPT ![r] = Rejected(Err("Failed to fetch"))]
              /\ pc' = [pc EXCEPT ![r] = "manifestDone"]
         [] resp = "notOk" ->
              /\ mres' = [mres EXCEPT ![r] = Rejected(Err("Failed to load remote manifest"))]
              /\ pc' = [pc EXCEPT ![r] = "manifestDone"]
         [] resp = "ok" ->
              /\ pc' = [pc EXCEPT ![r] = "parsing"]
              /\ mres' = mres
  /\ UNCHANGED <<envVars, cachedManifest, fetchCount, argVars, retryVars, runVars, slotVars>>

\* variant of CacheAfter: the payload is stored before it is validated
CacheAfterUnvalidated(p) == p

\* the cache after lines 20-21 ran on payload p: the assignment is part of
\* the return statement, which a throw of line 20 never reaches
CacheAfter(p) == IF ValidateManifest(p).status = "resolved" THEN p ELSE cachedManifest

\* await res.json() settles, validation, cache assignment (lines 17-21)
ParseSettle(r) ==
  /\ pc[r] = "parsing"
  /\ \E p \in Payloads :
       /\ mres' = [mres EXCEPT ![r] = ValidateManifest(p)]
       /\ cachedManifest' = CacheAfter(p)
  /\ pc' = [pc EXCEPT ![r] = "manifestDone"]
  /\ UNCHANGED <<envVars, fetchCount, argVars, retryVars, runVars, slotVars>>

(* ----------------------- loadRemotes.ts (part_005) -------------------- *)

\* variant of VariantOf: the rollout of the context is not consulted
VariantOfAlwaysCurrent(rollout) == "current"

\* ctx?.rollout ?? 'current'
VariantOf(rollout) == IF rollout = "none" THEN "current" ELSE rollout

\* variant of SelectedUrl: a variant without address falls back to 'current'
SelectedUrlOrCurrent(manifest, name, rollout) ==
  IF Address(manifest, name, VariantOf(rollout)) # ""
    THEN Address(manifest, name, VariantOf(rollout))
    ELSE Address(manifest, name, "current")

\* remote[ctx?.rollout ?? 'current'] (line 55), "" when undefined
SelectedUrl(manifest, name, rollout) == Address(manifest, name, VariantOf(rollout))

\* resolveRemoteUrl followed by the !url test of loadRemote (lines 72-73):
\* the error thrown, or the address to import
ResolveUrl(name, manifest, rollout) ==
  IF ~HasRemote(manifest, name)
    THEN [ok |-> FALSE, url |-> "", error |-> NamedErr("Unknown remote", name)]
  ELSE IF SelectedUrl(manifest, name, rollout) = ""
    THEN [ok |-> FALSE, url |-> "", error |-> NamedErr("No URL found for remote", name)]
  ELSE [ok |-> TRUE, url |-> SelectedUrl(manifest, name, rollout), error |-> NoErr]

\* variant of LoadRemoteResult: the imported value is returned unvalidated
LoadRemoteResultUnchecked(m, name) ==
  IF m = NoMod THEN Rejected(Err("Failed to fetch dynamically imported module"))
  ELSE ResolvedModule(m)

\* what the settled import() of loadRemote(name, ...) turns into (lines
\* 76-83); m = NoMod stands for a rejected import
LoadRemoteResult(m, name) ==
  IF m = NoMod THEN Rejected(Err("Failed to fetch dynamically imported module"))
  ELSE IF ~isRemoteModule(m)
    THEN Rejected(NamedErr("Remote does not export a valid RemoteModule", name))
  ELSE ResolvedModule(m)

RECURSIVE Pow2(_)
\* Math.pow(2, n)
Pow2(n) == IF n = 0 THEN 1 ELSE 2 * Pow2(n - 1)

\* variant of AttemptsRemain: the loop gives up one attempt early
AttemptsRemainOffByOne(k, maxRetries) == k + 1 < maxRetries

\* lines 105 and 120: another iteration follows attempt k (attempt < maxRetries)
AttemptsRemain(k, maxRetries) == k < maxRetries

\* variant of BackoffDelay: a constant delay, no exponential growth
BackoffDelayConstant(retryDelayMs, k) == retryDelayMs

\* line 122: retryDelayMs * Math.pow(2, attempt)
BackoffDelay(retryDelayMs, k) == retryDelayMs * Pow2(k)

\* catch block of attempt k (lines 115-125), and when no attempt remains the
\* loop exit and the final throw (line 128); m is the value the attempt's
\* import() delivered (NoMod when it delivered none)
AttemptFailed(r, k, e, m) ==
  /\ lastError' = [lastError EXCEPT ![r] = e]
  /\ outcomes' = [outcomes EXCEPT ![r] =
       Append(@, [res |-> e.msg, mod |-> NoMod, loaded |-> m, remote |-> e.remote])]
  /\ IF AttemptsRemain(k, opts[r].maxRetries)
       THEN /\ waits' = [waits EXCEPT ![r] = Append(@, BackoffDelay(opts[r].retryDelayMs, k))]
            /\ pc' = [pc EXCEPT ![r] = "backoff"]
            /\ lres' = lres
       ELSE /\ lres' = [lres EXCEPT ![r] = Rejected(FinalError(opts[r].maxRetries, e, rname[r]))]
            /\ pc' = [pc EXCEPT ![r] = "retryDone"]
            /\ waits' = waits

\* variant of AttemptSucceeded: the result is kept but the loop goes on
AttemptSucceededNoReturn(r, m) ==
  /\ lres' = [lres EXCEPT ![r] = ResolvedModule(m)]
  /\ outcomes' = [outcomes EXCEPT ![r] =
       Append(@, [res |-> "ok", mod |-> m, loaded |-> m, remote |-> ""])]
  /\ pc' = [pc EXCEPT ![r] = "backoff"]
  /\ UNCHANGED <<lastError, waits>>

\* return await Promise.race(...) with the load having won (line 114)
AttemptSucceeded(r, m) ==
  /\ lres' = [lres EXCEPT ![r] = ResolvedModule(m)]
  /\ outcomes' = [outcomes EXCEPT ![r] =
       Append(@, [res |-> "ok", mod |-> m, loaded |-> m, remote |-> ""])]
  /\ pc' = [pc EXCEPT ![r] = "retryDone"]
  /\ UNCHANGED <<lastError, waits>>

\* loop body of attempt k up to the await (lines 106-114): the timeout is
\* armed and loadRemote called; a throw of resolveRemoteUrl or of the !url
\* test rejects loadPromise at once and is caught in the same turn
StartAttempt(r, k, name, manifest, rollout) ==
  /\ attempt' = [attempt EXCEPT ![r] = k]
  /\ started' = [started EXCEPT ![r] = @ + 1]
  /\ IF ResolveUrl(name, manifest, rollout).ok
       THEN /\ loading' = [loading EXCEPT ![r] = @ \cup {k}]
            /\ imported' = [imported EXCEPT ![r] =
                 Append(@, [attempt |-> k, url |-> ResolveUrl(name, manifest, rollout).url])]
            /\ pc' = [pc EXCEPT ![r] = "racing"]
            /\ UNCHANGED <<lastError, lres, outcomes, waits>>
       ELSE /\ AttemptFailed(r, k, ResolveUrl(name, manifest, rollout).error, NoMod)
            /\ UNCHANGED <<loading, imported>>

\* variant of Racing: a race is taken to be open for ever
RacingAlways(r) == TRUE

\* the race of the current attempt is still open
Racing(r) == pc[r] = "racing"

\* import() of attempt j settles: with the race of attempt j still open it
\* decides the attempt, otherwise nobody listens any more
LoadSettle(r, j, imports) ==
  /\ j \in loading[r]
  /\ loading' = [loading EXCEPT ![r] = @ \ {j}]
  /\ \E m \in imports :
       IF Racing(r) /\ j = attempt[r]
         THEN IF LoadRemoteResult(m, rname[r]).status = "resolved"
                THEN AttemptSucceeded(r, LoadRemoteResult(m, rname[r]).mod)
                ELSE AttemptFailed(r, j, LoadRemoteResult(m, rname[r]).error, m)
         ELSE UNCHANGED <<pc, lastError, lres, outcomes, waits>>
  /\ UNCHANGED <<envVars, manifestVars, argVars, attempt, started, imported, runVars, slotVars>>

\* variant of TimeoutFires: the timer fires but rejects nothing
TimeoutIgnored(r) ==
  /\ Racing(r)
  /\ UNCHANGED vars

\* setTimeout(() => reject(new Error('Load timeout')), timeoutMs) fires
\* while the race is open (lines 108-110); the import stays in flight
TimeoutFires(r) ==
  /\ Racing(r)
  /\ AttemptFailed(r, attempt[r], Err("Load timeout"), NoMod)
  /\ UNCHANGED <<envVars, manifestVars, argVars, attempt, loading, started, imported, runVars, slotVars>>

\* the backoff timer fires (line 123): attempt++ and the next loop body
BackoffElapsed(r) ==
  /\ pc[r] = "backoff"
  /\ StartAttempt(r, attempt[r] + 1, rname[r], mres[r].value, rctx[r])
  /\ UNCHANGED <<envVars, manifestVars, argVars, runVars, slotVars>>

(* ---------------------------- RemoteSlot.tsx -------------------------- *)

\* inputs of the slot: remoteName props and rollout values of the context
SlotNames == {"status", "ghost"}
SlotRollouts == {"none"}

\* variant of IsCancelled: the flag is not consulted
CancelledIgnored(r) == FALSE

\* the cancelled test after a suspension point (lines 31, 38, 44)
IsCancelled(r) == cancelled[r]

\* setState(s) and the render it causes: the container div exists exactly
\* while the status is not 'error' (lines 63-67); leaving 'error' renders a
\* fresh, empty div
SetState(s) ==
  /\ state' = s
  /\ IF s.status = "error"
       THEN /\ containerRef' = 0
            /\ nextDiv' = nextDiv
       ELSE IF containerRef = 0
         THEN /\ containerRef' = nextDiv
              /\ nextDiv' = nextDiv + 1
         ELSE UNCHANGED <<containerRef, nextDiv>>

\* variant of CatchError: the rejection is swallowed, no state is set
CatchErrorSwallowed(r, e) ==
  /\ log' = [log EXCEPT ![r] = Append(@, "return44")]
  /\ UNCHANGED <<state, containerRef, nextDiv>>

\* catch block of the effect's async function (lines 43-53)
CatchError(r, e) ==
  IF IsCancelled(r)
    THEN /\ log' = [log EXCEPT ![r] = Append(@, "return44")]
         /\ UNCHANGED <<state, containerRef, nextDiv>>
    ELSE /\ SetState(SlotError(e))
         /\ log' = [log EXCEPT ![r] = Append(@, "setError")]

\* the effect's async function returns: its promises and the frame of
\* loadRemoteWithRetry (with what was recorded about that call) are dropped,
\* and nobody listens to imports of this run that are still in flight
Return(r) ==
  /\ pc' = [pc EXCEPT ![r] = "done"]
  /\ mres' = [mres EXCEPT ![r] = Pending]
  /\ lres' = [lres EXCEPT ![r] = Pending]
  /\ attempt' = [attempt EXCEPT ![r] = 0]
  /\ lastError' = [lastError EXCEPT ![r] = NoErr]
  /\ loading' = [loading EXCEPT ![r] = {}]
  /\ started' = [started EXCEPT ![r] = 0]
  /\ outcomes' = [outcomes EXCEPT ![r] = <<>>]
  /\ waits' = [waits EXCEPT ![r] = <<>>]
  /\ imported' = [imported EXCEPT ![r] = <<>>]

\* continuation after await loadRemoteManifest() (lines 29-36, 43-53)
AfterManifest(r) ==
  /\ pc[r] = "manifestDone"
  /\ IF mres[r].status = "rejected"
       THEN /\ CatchError(r, mres[r].error)
            /\ Return(r)
       ELSE IF IsCancelled(r)
         THEN /\ Return(r)
              /\ log' = [log EXCEPT ![r] = Append(@, "return31")]
              /\ UNCHANGED <<state, containerRef, nextDiv>>
         ELSE /\ StartAttempt(r, 0, rname[r], mres[r].value, rctx[r])
              /\ UNCHANGED <<mres, state, containerRef, nextDiv, log>>
  /\ UNCHANGED <<envVars, cachedManifest, fetchCount, argVars, cancelled, cleanup, elParent, cur, alive>>

\* variant of MountReturns: a throw of mount goes unnoticed
MountAlwaysReturns(m) == TRUE

\* mod.mount(el, visibilityContext) returns normally
MountReturns(m) == ~m.mountThrows

\* continuation after await loadRemoteWithRetry(...) (lines 38-53)
AfterLoad(r) ==
  /\ pc[r] = "retryDone"
  /\ Return(r)
  /\ IF lres[r].status = "rejected"
       THEN /\ CatchError(r, lres[r].error)
            /\ cleanup' = cleanup
       ELSE IF IsCancelled(r)
         THEN /\ log' = [log EXCEPT ![r] = Append(@, "return38")]
              /\ UNCHANGED <<state, containerRef, nextDiv, cleanup>>
         ELSE IF MountReturns(lres[r].mod)
           THEN /\ SetState(SlotState("mounted"))
                /\ cleanup' = [cleanup EXCEPT ![r] = lres[r].mod]
                /\ log' = [log EXCEPT ![r] = @ \o <<"mount", "cleanupSet", "setMounted">>]
           ELSE /\ SetState(SlotError(Err("thrown by mount")))
                /\ cleanup' = cleanup
                /\ log' = [log EXCEPT ![r] = @ \o <<"mount", "setError">>]
  /\ UNCHANGED <<envVars, cachedManifest, fetchCount, argVars, cancelled, elParent, cur, alive>>

\* the cleanup callback () => mod.unmount?.(el) closing over m (line 40)
CleanupCallback(m) ==
  IF m.unmount = "function" THEN <<"unmount">> ELSE <<>>

\* cleanup?.() throws (line 58): a cleanup callback is recorded and the unmount
\* it calls throws, which ends the teardown before el.remove() (line 59).
\* React reports the error and goes on with the commit.
CleanupThrows(r) ==
  cleanup[r] # NoMod /\ cleanup[r].unmount = "function" /\ cleanup[r].unmountThrows

\* variant of Teardown: the element is removed before the cleanup callback runs
TeardownRemoveFirst(r) ==
  <<"cancel", "remove">> \o (IF cleanup[r] # NoMod THEN CleanupCallback(cleanup[r]) ELSE <<>>)

\* the effect's teardown (lines 56-60), as the side effects it performs
Teardown(r) ==
  <<"cancel">> \o (IF cleanup[r] # NoMod THEN CleanupCallback(cleanup[r]) ELSE <<>>)
    \o (IF CleanupThrows(r) THEN <<>> ELSE <<"remove">>)

\* el's parent after the teardown: el.remove() detaches it (line 59)
ParentAfterTeardown(r) == IF CleanupThrows(r) THEN elParent[r] ELSE -1

\* f with run r torn down to v (r = 0: there is no run to tear down)
AtRun(f, r, v) == IF r = 0 THEN f ELSE [f EXCEPT ![r] = v]

\* The effect runs: first run after the first render, or a re-run because
\* remoteName or the context identity changed (line 61). React first runs the
\* teardown of the previous run, then the effect body (lines 21-54) up to the
\* first await, which is inside loadRemoteManifest.
EffectRun(name, rollout) ==
  /\ alive
  /\ cur < MaxRuns
  /\ cur' = cur + 1
  /\ cancelled' = AtRun(cancelled, cur, TRUE)
  /\ log' = AtRun(log, cur, IF cur = 0 THEN <<>> ELSE log[cur] \o Teardown(cur))
  /\ elParent' = [AtRun(elParent, cur, IF cur = 0 THEN 0 ELSE ParentAfterTeardown(cur))
                    EXCEPT ![cur + 1] = containerRef]
  /\ rname' = [rname EXCEPT ![cur + 1] = name]
  /\ rctx' = [rctx EXCEPT ![cur + 1] = rollout]
  /\ opts' = [opts EXCEPT ![cur + 1] = SlotOpts]
  /\ CallLoadRemoteManifest(cur + 1)
  /\ UNCHANGED <<envVars, retryVars, cleanup, state, containerRef, nextDiv, alive>>

\* the host discards the slot: teardown of the current run, no new run
SlotUnmount ==
  /\ alive
  /\ cur # 0
  /\ alive' = FALSE
  /\ cancelled' = [cancelled EXCEPT ![cur] = TRUE]
  /\ log' = [log EXCEPT ![cur] = @ \o Teardown(cur)]
  /\ elParent' = [elParent EXCEPT ![cur] = ParentAfterTeardown(cur)]
  /\ UNCHANGED <<envVars, pc, manifestVars, argVars, retryVars, cleanup, state, containerRef, nextDiv, cur>>

(* ---------------------------- specification --------------------------- *)

\* the slot has rendered once (status 'loading', container div 1); no effect
\* has run yet
InitState ==
  /\ cachedManifest = Null
  /\ fetchCount = 0
  /\ pc = [r \in Runs |-> "idle"]
  /\ attempt = [r \in Runs |-> 0]
  /\ lastError = [r \in Runs |-> NoErr]
  /\ loading = [r \in Runs |-> {}]
  /\ lres = [r \in Runs |-> Pending]
  /\ started = [r \in Runs |-> 0]
  /\ outcomes = [r \in Runs |-> <<>>]
  /\ waits = [r \in Runs |-> <<>>]
  /\ imported = [r \in Runs |-> <<>>]
  /\ cancelled = [r \in Runs |-> FALSE]
  /\ cleanup = [r \in Runs |-> NoMod]
  /\ elParent = [r \in Runs |-> 0]
  /\ log = [r \in Runs |-> <<>>]
  /\ state = SlotState("loading")
  /\ containerRef = 1
  /\ nextDiv = 2
  /\ cur = 0
  /\ alive = TRUE

\* elements the shell and the status remote are mounted into, and the
\* contexts (by identity) they are given
ShellEls == {"e1", "e2"}
StatusEls == {"s1", "s2"}
MountCtxs == {"c1", "c2"}

NoCall == [fn |-> "", module |-> "", el |-> "", ctx |-> "", result |-> "", root |-> 0, css |-> 0]

\* the RemoteSlot components the host renders side by side
SibIds == {"A", "B"}

\* a RemoteSlot after its first render (lines 15-18, 67): status 'loading',
\* its container div rendered, no effect run yet
NewSlot ==
  [state |-> SlotState("loading"), containerRef |-> 1, nextDiv |-> 2, run |-> 0,
   pc |-> "idle", el |-> "", elParent |-> 0, ctx |-> "", cancelled |-> FALSE,
   cleanup |-> "", alive |-> TRUE]

\* no mount or unmount call made: the registry is empty, no root exists
InitShell ==
  /\ sib = [s \in SibIds |-> NewSlot]
  /\ rootRegistry = [el \in ShellEls |-> 0]
  /\ statusRoot = 0
  /\ roots = <<>>
  /\ lastCall = NoCall
  /\ ncalls = 0

\* no stylesheet link in the document, no loadCss call made, no function
\* called on its own
InitEnv ==
  /\ head = <<>>
  /\ cssCalls = <<>>
  /\ arg = NoMod
  /\ ret = <<>>
  /\ InitShell

\* no run has been given its arguments
InitArgs ==
  /\ mres = [r \in Runs |-> Pending]
  /\ rname = [r \in Runs |-> ""]
  /\ rctx = [r \in Runs |-> "none"]
  /\ opts = [r \in Runs |-> NoOpts]

Init ==
  /\ InitState
  /\ InitArgs
  /\ InitEnv

Next ==
  \/ \E name \in SlotNames, rollout \in SlotRollouts : EffectRun(name, rollout)
  \/ SlotUnmount
  \/ \E r \in Runs : FetchSettle(r)
  \/ \E r \in Runs : ParseSettle(r)
  \/ \E r \in Runs : AfterManifest(r)
  \/ \E r \in Runs : \E j \in 0..SlotMaxRetries : LoadSettle(r, j, SlotImports)
  \/ \E r \in Runs : TimeoutFires(r)
  \/ \E r \in Runs : BackoffElapsed(r)
  \/ \E r \in Runs : AfterLoad(r)

Spec == Init /\ [][Next]_vars

(* ------------- loadRemoteWithRetry called directly (run 1) ------------ *)

\* option values a direct caller passes
RetryDelays == {DefaultRetryDelayMs, 250}
RetryRollouts == {"none", "current", "next"}

\* run 1 stands for a direct call loadRemoteWithRetry(name, manifest, ctx,
\* options) with arguments drawn from small sets; no slot is involved
InitRetry ==
  /\ InitState
  /\ InitEnv
  /\ \E mx \in 0..MaxRetriesBound, d \in RetryDelays :
       opts = [r \in Runs |-> IF r = 1
                 THEN [maxRetries |-> mx, retryDelayMs |-> d, timeoutMs |-> DefaultTimeoutMs]
                 ELSE NoOpts]
  /\ \E n \in RemoteNames : rname = [r \in Runs |-> IF r = 1 THEN n ELSE ""]
  /\ \E v \in RetryRollouts : rctx = [r \in Runs |-> IF r = 1 THEN v ELSE "none"]
  /\ \E p \in {q \in Payloads : HasRemotes(q)} :
       mres = [r \in Runs |-> IF r = 1 THEN ResolvedManifest(p) ELSE Pending]

\* the call: the first loop iteration up to its await
CallLoadRemoteWithRetry ==
  /\ pc[1] = "idle"
  /\ StartAttempt(1, 0, rname[1], mres[1].value, rctx[1])
  /\ UNCHANGED <<envVars, manifestVars, argVars, runVars, slotVars>>

NextRetry ==
  \/ CallLoadRemoteWithRetry
  \/ \E j \in 0..MaxRetriesBound : LoadSettle(1, j, RetryImports)
  \/ TimeoutFires(1)
  \/ BackoffElapsed(1)

SpecRetry == InitRetry /\ [][NextRetry]_vars

\* Timers fire: the event loop runs every timer callback that is due, and the
\* call itself is made. An import() is not required ever to settle.
FairSpecRetry ==
  /\ SpecRetry
  /\ WF_vars(CallLoadRemoteWithRetry)
  /\ WF_vars(TimeoutFires(1))
  /\ WF_vars(BackoffElapsed(1))

(* ------------------------------- claims ------------------------------- *)

\* a loadRemoteManifest call of run r has issued its fetch and not settled
FetchInFlight(r) == pc[r] \in {"fetching", "parsing"}

\* C1: the manifest resource is fetched once, whatever the interleaving of
\* loadRemoteManifest calls: a call that starts while an earlier call still
\* awaits its fetch issues no second fetch, so never are two in flight.
C1_FetchedOnce ==
  \A r1, r2 \in Runs : FetchInFlight(r1) /\ FetchInFlight(r2) => r1 = r2

\* C2: once a call has stored a manifest, cachedManifest is never assigned
\* again: every step leaves a non-null cache as it is.
C2_CacheNeverReassigned ==
  [][cachedManifest # Null => cachedManifest' = cachedManifest]_vars

\* C3: a payload in which some remote entry lacks a usable address is
\* rejected and never stored in the cache.
C3_DefectiveNeverCached ==
  cachedManifest # Null => AllEntriesUsable(cachedManifest)

\* the settled races of the direct call, and those that failed
Races == outcomes[1]
Failures == {i \in 1..Len(Races) : Races[i].res # "ok"}
AllFailed == Failures = 1..Len(Races)

\* C4: when every attempt fails, loadRemoteWithRetry makes exactly
\* maxRetries + 1 attempts and then rejects with "after <maxRetries + 1>
\* attempts" followed by the message of the last attempt's error; it rejects in
\* no other case.
C4_RetryExhaustion ==
  /\ AllFailed => started[1] <= opts[1].maxRetries + 1
  /\ (AllFailed /\ Len(Races) = opts[1].maxRetries + 1) => lres[1].status = "rejected"
  /\ lres[1].status = "rejected" =>
       /\ AllFailed
       /\ started[1] = opts[1].maxRetries + 1
       /\ Len(Races) = opts[1].maxRetries + 1
       /\ lres[1].error.msg = "Failed to load remote after attempts"
       /\ lres[1].error.attempts = opts[1].maxRetries + 1
       /\ lres[1].error.last = Races[Len(Races)].res

\* C4 witness: three attempts, all failed, the last by timeout, and the
\* rejection reports 3 attempts and "Load timeout"
C4_Witness ==
  /\ lres[1].status = "rejected"
  /\ opts[1].maxRetries = 2
  /\ started[1] = 3
  /\ Races[1].res = "Remote does not export a valid RemoteModule"
  /\ lres[1].error.attempts = 3
  /\ lres[1].error.last = "Load timeout"

\* C5: loadRemoteWithRetry resolves with the module of the first attempt that
\* succeeds: every earlier attempt failed, exactly k + 1 attempts were started
\* when attempt k is the one that succeeded, and after it no attempt and no
\* backoff wait is started.
C5_FirstSuccessReturns ==
  /\ lres[1].status = "resolved" =>
       /\ pc[1] = "retryDone"
       /\ Len(Races) >= 1
       /\ Races[Len(Races)].res = "ok"
       /\ Failures = 1..(Len(Races) - 1)
       /\ lres[1].mod = Races[Len(Races)].mod
       /\ isRemoteModule(lres[1].mod)
       /\ started[1] = Len(Races)
       /\ Len(waits[1]) = Len(Races) - 1
  /\ ~AllFailed => lres[1].status = "resolved"

\* C5 witness: attempt 0 failed, attempt 1 succeeded, two attempts started
C5_Witness ==
  /\ lres[1].status = "resolved"
  /\ lres[1].mod = ModNoUnmount
  /\ started[1] = 2
  /\ Races[1].res = "Load timeout"

\* C6: the wait after failed attempt k is retryDelayMs * 2^k, one wait per
\* failed attempt that is not the last one allowed, and none after attempt
\* maxRetries.
C6_ExponentialBackoff ==
  /\ \A i \in 1..Len(waits[1]) : waits[1][i] = opts[1].retryDelayMs * 2^(i - 1)
  /\ Len(waits[1]) =
       IF Cardinality(Failures) <= opts[1].maxRetries
         THEN Cardinality(Failures) ELSE opts[1].maxRetries
  /\ Len(waits[1]) <= opts[1].maxRetries

\* C6 witness: three failed attempts with delays 250 and 500 between them and
\* no wait after the last
C6_Witness ==
  /\ lres[1].status = "rejected"
  /\ opts[1].maxRetries = 2
  /\ opts[1].retryDelayMs = 250
  /\ waits[1] = <<250, 500>>

\* C7: loadRemoteWithRetry always eventually resolves or rejects, the timers
\* alone driving it: no import() is required to settle.
C7_AlwaysSettles == <>(lres[1].status # "pending")

\* C7 witness: the call has rejected although none of its imports has settled,
\* every attempt having ended by 'Load timeout'
C7_Witness ==
  /\ lres[1].status = "rejected"
  /\ opts[1].maxRetries >= 1
  /\ loading[1] = 0..opts[1].maxRetries
  /\ \A i \in 1..Len(Races) : Races[i].res = "Load timeout"

\* positions of event e in the log of run r
At(r, e) == {i \in 1..Len(log[r]) : log[r][i] = e}

\* what a run does to the slot or the remote: mount, recording the cleanup
\* callback, setState
SideEffects == {"mount", "cleanupSet", "setMounted", "setError"}

\* C8: once a run is torn down (cancelled set), it performs no further side
\* effect: no mod.mount, no cleanup callback recorded, no setState, however
\* late its manifest fetch or its module load settles.
C8_CancelledRunIsSilent ==
  \A r \in Runs :
    /\ \A i \in At(r, "cancel") : \A j \in (i + 1)..Len(log[r]) : log[r][j] \notin SideEffects
    /\ (cancelled[r] /\ At(r, "cleanupSet") = {}) => cleanup[r] = NoMod
    /\ cancelled[r] <=> At(r, "cancel") # {}

\* C8 witness: a run torn down while loading got its module afterwards and
\* returned at the cancelled test without mounting it
C8_Witness ==
  \E r \in Runs : log[r] = <<"cancel", "remove", "return38">> /\ cleanup[r] = NoMod

\* the teardown of run r has called unmount exactly once
UnmountedOnce(r) == Cardinality(At(r, "unmount")) = 1

\* the teardown of run r has called an unmount that threw
UnmountThrew(r) == At(r, "unmount") # {} /\ cleanup[r].unmountThrows

OutcomePending == cur # 0 /\ pc[cur] \notin {"idle", "done"}

\* C10: the slot is in Loading from the start of every run (the first and
\* every re-run, also from Mounted and from Error) until that run's outcome is
\* known.
C10_RerunEntersLoading ==
  (alive /\ OutcomePending) => state.status = "loading"

\* run r takes the step that ends its asynchronous function without having
\* been cancelled, its loadRemoteManifest call having rejected
ManifestFailureHandled(r) ==
  /\ pc[r] = "manifestDone" /\ pc'[r] = "done"
  /\ mres[r].status = "rejected" /\ ~cancelled[r]

\* the same with its loadRemoteWithRetry call having rejected
LoadFailureHandled(r) ==
  /\ pc[r] = "retryDone" /\ pc'[r] = "done"
  /\ lres[r].status = "rejected" /\ ~cancelled[r]

\* the last attempt failed resolving the address, before any load
ResolutionFailure(e) == e.last \in {"Unknown remote", "No URL found for remote"}

\* C11: when a run fails, the Error state's stage names the stage that
\* failed: 'manifest' for a failure of loadRemoteManifest, of an unknown
\* remote or of a missing variant, 'load' for a failure of loading or
\* validating the module.
C11_StageNamesFailingStage ==
  [][\A r \in Runs :
       /\ ManifestFailureHandled(r) => state'.status = "error" /\ state'.stage = "manifest"
       /\ LoadFailureHandled(r) =>
            /\ state'.status = "error"
            /\ state'.stage = IF ResolutionFailure(lres[r].error) THEN "manifest" ELSE "load"]_vars

\* run r sets the state Mounted in this step
SetsMounted(r) == Len(log'[r]) > Len(log[r]) /\ log'[r][Len(log'[r])] = "setMounted"

\* C12: in an uncancelled run every rejection of loadRemoteManifest or of
\* loadRemoteWithRetry is caught and becomes the state Error carrying that
\* rejection, the run's function ends normally (none escapes), and a run in
\* which either call failed never sets Mounted.
C12_RejectionsBecomeError ==
  [][\A r \in Runs :
       /\ ManifestFailureHandled(r) =>
            /\ state' = [status |-> "error", stage |-> state'.stage, error |-> mres[r].error]
            /\ log'[r] = Append(log[r], "setError")
       /\ LoadFailureHandled(r) =>
            /\ state' = [status |-> "error", stage |-> state'.stage, error |-> lres[r].error]
            /\ log'[r] = Append(log[r], "setError")
       /\ SetsMounted(r) =>
            /\ mres[r].status = "resolved" /\ lres[r].status = "resolved"
            /\ At(r, "setError") = {}
       /\ At(r, "setError") # {} => ~SetsMounted(r)]_vars

\* C12 witness: the current run, not cancelled, ended in Error because
\* loadRemoteWithRetry rejected after all its attempts
C12_Witness ==
  /\ cur # 0 /\ ~cancelled[cur] /\ pc[cur] = "done"
  /\ log[cur] = <<"setError">>
  /\ state.status = "error" /\ state.error.attempts = SlotMaxRetries + 1

\* run r, not cancelled, takes the step after both awaits resolved: the
\* manifest resolved and the module loaded and validated
MountStep(r) ==
  /\ pc[r] = "retryDone" /\ pc'[r] = "done"
  /\ mres[r].status = "resolved" /\ lres[r].status = "resolved"
  /\ ~cancelled[r]

\* that step calls mod.mount once, for the current run (whose element and
\* context are the ones of the latest render), and a run never calls it twice
MountCalledOnce(r) ==
  /\ r = cur /\ alive
  /\ At(r, "mount") = {}
  /\ Cardinality(At(r, "mount")') = 1

\* C13 as stated: in an uncancelled run whose manifest resolves and whose
\* module loads and validates, mod.mount is called exactly once with the
\* run's element and the current context, and the state then becomes Mounted.
C13_MountThenAlwaysMounted ==
  [][\A r \in Runs : MountStep(r) => MountCalledOnce(r) /\ state'.status = "mounted"]_vars

\* C13 amended: in such a run mod.mount is called exactly once with the run's
\* element and the current context; the state then becomes Mounted if that
\* call returns, and Error if it throws.
C13_MountOnceMountedIfReturns ==
  [][\A r \in Runs :
       MountStep(r) =>
         /\ MountCalledOnce(r)
         /\ state'.status = IF lres[r].mod.mountThrows THEN "error" ELSE "mounted"]_vars

\* C13 witness: the current run called mount once and the slot is Mounted
C13_Witness ==
  /\ cur # 0 /\ ~cancelled[cur]
  /\ log[cur] = <<"mount", "cleanupSet", "setMounted">>
  /\ state.status = "mounted"

\* run r calls mod.mount in this step
MountCalled(r) == Cardinality(At(r, "mount")') > Cardinality(At(r, "mount"))

\* m is what RemoteModule requires: an object whose mount is a function and
\* whose unmount, when it has one, is a function
MeetsContract(m) ==
  m.kind = "object" /\ m.mount = "function" /\ m.unmount \in {"absent", "function"}

\* C14: within one run the stages are ordered: a load is started only after
\* the manifest resolved; a module is handed on only when an import of the
\* run delivered it and it passed validation; mount is called only after all
\* of that, never on a module that fails the contract and never before the
\* manifest resolved.
C14_StagesOrdered ==
  [][\A r \in Runs :
       /\ started'[r] > started[r] => mres[r].status = "resolved"
       /\ (lres[r].status = "pending" /\ lres'[r].status = "resolved") =>
            /\ mres[r].status = "resolved"
            /\ attempt[r] \in loading[r] /\ attempt[r] \notin loading'[r]
            /\ MeetsContract(lres'[r].mod)
       /\ MountCalled(r) =>
            /\ pc[r] = "retryDone"
            /\ mres[r].status = "resolved" /\ lres[r].status = "resolved"
            /\ MeetsContract(lres[r].mod)]_vars

\* C14 witness: a run went through all four stages: the manifest is cached,
\* its module (one without unmount) was mounted and recorded for cleanup
C14_Witness ==
  \E r \in Runs :
    /\ At(r, "mount") = {1} /\ cleanup[r] = ModNoUnmount
    /\ cachedManifest # Null /\ pc[r] = "done"

(* ------------------- isRemoteModule called on its own ----------------- *)

\* types of primitive candidates, and what a property of a candidate can be
Primitives == {"undefined", "string", "number", "boolean"}
PropertyValues == {"absent", "function", "undefined", "null", "string"}

\* the candidates: null, the primitives (which own no property), and every
\* object and every function with mount and unmount absent or present with a
\* function, undefined, null or a string as value
Candidates ==
  {Candidate("null", "absent", "absent", FALSE, FALSE)}
    \cup {Candidate(k, "absent", "absent", FALSE, FALSE) : k \in Primitives}
    \cup {Candidate(k, m, u, FALSE, FALSE) :
            k \in {"object", "function"}, m \in PropertyValues, u \in PropertyValues}

InitValidate ==
  /\ InitState
  /\ InitArgs
  /\ InitShell
  /\ head = <<>>
  /\ cssCalls = <<>>
  /\ arg \in Candidates
  /\ ret = <<>>

\* isRemoteModule(arg) is called and returns
CallIsRemoteModule ==
  /\ ret = <<>>
  /\ ret' = <<isRemoteModule(arg)>>
  /\ UNCHANGED <<pc, manifestVars, argVars, retryVars, runVars, slotVars, shellVars,
                 head, cssCalls, arg>>

NextValidate == CallIsRemoteModule

SpecValidate == InitValidate /\ [][NextValidate]_vars

\* C15: isRemoteModule(candidate) is true exactly when the candidate is a
\* non-null object that has a mount property which is a function and whose
\* unmount property, when it has one at all, is a function; for every kind of
\* candidate and every combination of mount and unmount.
C15_ValidatorIff ==
  ret # <<>> =>
    (ret[1] <=> (/\ arg.kind = "object"
                 /\ arg.mount = "function"
                 /\ (arg.unmount # "absent" => arg.unmount = "function")))

\* C15 witness: an object with a mount function whose unmount is present but
\* undefined was rejected
C15_Witness ==
  /\ ret = <<FALSE>>
  /\ arg.kind = "object" /\ arg.mount = "function" /\ arg.unmount = "undefined"

\* the import(url) calls made by loadRemote call k (attempt k) of run 1
ImportsOf(k) == {i \in 1..Len(imported[1]) : imported[1][i].attempt = k}

\* attempt k ended resolving the address, before the load
FailedResolving(k) ==
  /\ k + 1 <= Len(Races)
  /\ Races[k + 1].res \in {"Unknown remote", "No URL found for remote"}

C17_StylesheetTriggeredBeforeImport ==
  imported[1] # <<>> => cssCalls # <<>>

\* manifest.remotes[name][ctx.rollout ?? 'current'] for the arguments of the
\* call of run 1 ("" when there is no such entry)
SelectedAddress ==
  Address(mres[1].value, rname[1], IF rctx[1] = "none" THEN "current" ELSE rctx[1])

\* C18: address resolution looks up manifest.remotes[name][ctx.rollout ??
\* 'current']: every attempt ends with the 'Unknown remote' error when the
\* name is absent from the manifest, with the no-address error when the
\* selected variant has no address, and otherwise loads that variant's
\* address.
C18_AddressResolution ==
  \A k \in 0..(started[1] - 1) :
    /\ ~HasRemote(mres[1].value, rname[1]) =>
         /\ Races[k + 1].res = "Unknown remote" /\ Races[k + 1].remote = rname[1]
         /\ ImportsOf(k) = {}
    /\ (HasRemote(mres[1].value, rname[1]) /\ SelectedAddress = "") =>
         /\ Races[k + 1].res = "No URL found for remote" /\ Races[k + 1].remote = rname[1]
         /\ ImportsOf(k) = {}
    /\ SelectedAddress # "" =>
         \E i \in ImportsOf(k) : imported[1][i].url = SelectedAddress

\* C18 witness: with rollout 'next' the 'next' address of the remote was
\* imported, and a retried attempt imported it again
C18_Witness ==
  /\ rctx[1] = "next" /\ rname[1] = "status" /\ mres[1].value = "P_A"
  /\ Len(imported[1]) = 2
  /\ imported[1][1].url = "u2" /\ imported[1][2].url = "u2"

(* -------------------- loadCss (packages/ui, README) ------------------- *)

\* number of loadCss calls made, and of load/error events one link receives
MaxCssCalls == 3
MaxLinkEvents == 2

\* the stylesheet addresses loadCss is called with
CssHrefs == {"a.css", "b.css"}

\* the promise a loadCss call returns
CssPending == [status |-> "pending", error |-> <<>>]
CssResolved == [status |-> "resolved", error |-> <<>>]
\* reject(new Error(`Failed to load CSS: ${href}`))
CssRejected(href) == [status |-> "rejected", error |-> <<"Failed to load CSS: ", href>>]

\* variant of Existing: only a link that has already loaded counts
ExistingLoadedOnly(href) ==
  {i \in 1..Len(head) :
     head[i].href = href /\ head[i].events # <<>> /\ head[i].events[1] = "load"}

\* document.querySelector(`link[href="${href}"]`): the links it can match
Existing(href) == {i \in 1..Len(head) : head[i].href = href}

\* variant of Settle: a later resolve or reject replaces the outcome
SettleOverwrites(p, q) == q

\* resolve() or reject() called on promise p with outcome q: a promise that
\* has settled keeps its outcome
Settle(p, q) == IF p.status = "pending" THEN q ELSE p

\* loadCss(href): the executor runs synchronously within the call
LoadCssCall(href) ==
  IF Existing(href) # {}
    THEN /\ cssCalls' = Append(cssCalls, [href |-> href, link |-> 0, promise |-> CssResolved])
         /\ head' = head
    ELSE /\ head' = Append(head, [href |-> href, events |-> <<>>])
         /\ cssCalls' = Append(cssCalls,
              [href |-> href, link |-> Len(head) + 1, promise |-> CssPending])

\* a loadCss(href) call made on its own
LoadCss(href) ==
  /\ Len(cssCalls) < MaxCssCalls
  /\ LoadCssCall(href)
  /\ UNCHANGED <<pc, manifestVars, argVars, retryVars, runVars, slotVars, shellVars, arg, ret>>

\* the load or error event of link i fires: link.onload / link.onerror of
\* the call that created it runs (a link put there by someone else has none)
LinkEvent(i, ev) ==
  /\ i \in 1..Len(head)
  /\ Len(head[i].events) < MaxLinkEvents
  /\ head' = [head EXCEPT ![i].events = Append(@, ev)]
  /\ cssCalls' = [c \in 1..Len(cssCalls) |->
       IF cssCalls[c].link = i
         THEN [cssCalls[c] EXCEPT !.promise =
                 Settle(@, IF ev = "load" THEN CssResolved ELSE CssRejected(head[i].href))]
         ELSE cssCalls[c]]
  /\ UNCHANGED <<pc, manifestVars, argVars, retryVars, runVars, slotVars, shellVars, arg, ret>>

\* the document holds no stylesheet link, or one that the page put there
InitCss ==
  /\ InitState
  /\ InitArgs
  /\ InitShell
  /\ head \in {<<>>, <<[href |-> "a.css", events |-> <<>>]>>}
  /\ cssCalls = <<>>
  /\ arg = NoMod
  /\ ret = <<>>

NextCss ==
  \/ \E href \in CssHrefs : LoadCss(href)
  \/ \E i \in 1..(MaxCssCalls + 1) : \E ev \in {"load", "error"} : LinkEvent(i, ev)

SpecCss == InitCss /\ [][NextCss]_vars

\* C19: after any sequence of loadCss calls, overlapping calls for one href
\* before any load or error event included, the document head contains at
\* most one stylesheet link per distinct href.
C19_OneLinkPerHref ==
  \A i \in 1..Len(head) : \A j \in 1..Len(head) : head[i].href = head[j].href => i = j

\* C19 witness: two calls for the same href were made before the link of the
\* first received any event, and the second created no link
C19_Witness ==
  /\ Len(cssCalls) >= 2
  /\ cssCalls[1].href = cssCalls[2].href
  /\ cssCalls[1].link # 0 /\ cssCalls[2].link = 0
  /\ head[cssCalls[1].link].events = <<>>

\* C20: the promise of a loadCss(href) call that created the link is pending
\* until an event fires, rejected with 'Failed to load CSS: <href>' when the
\* first event is the error event, resolved when it is the load event, and a
\* later event never changes it (it settles at most once).
C20_CreatorSettlesOnce ==
  \A c \in 1..Len(cssCalls) :
    cssCalls[c].link # 0 =>
      LET ev == head[cssCalls[c].link].events IN
        /\ ev = <<>> => cssCalls[c].promise.status = "pending"
        /\ (ev # <<>> /\ ev[1] = "load") => cssCalls[c].promise = CssResolved
        /\ (ev # <<>> /\ ev[1] = "error") =>
             cssCalls[c].promise =
               [status |-> "rejected", error |-> <<"Failed to load CSS: ", cssCalls[c].href>>]

\* C20 witness: the link a call created fired error and then load, and the
\* call's promise is rejected
C20_Witness ==
  \E c \in 1..Len(cssCalls) :
    /\ cssCalls[c].link # 0
    /\ head[cssCalls[c].link].events = <<"error", "load">>
    /\ cssCalls[c].promise.status = "rejected"

(* ------------------ deriveCssUrl (packages/ui, README) ---------------- *)

\* longest file name (in characters) of the addresses tried
MaxNameLen == 3

\* An address is a sequence of pieces: a prefix ("http://h/" makes it fully
\* qualified, "./" relative), the characters of the file name, the
\* extension, then an optional query and an optional fragment.
UrlPrefixes == {"http://h/", "./"}
NameChars == {"a", "1", "-"}
Alphanumeric == {"a", "1"}
JsExtensions == {".mjs", ".js"}
UrlSuffixes == {<<>>, <<"?v=1">>, <<"#main">>, <<"?v=1", "#main">>}

RECURSIVE NamesOfLen(_)
\* the file names of n characters
NamesOfLen(n) ==
  IF n = 0 THEN {<<>>}
  ELSE {Append(s, c) : s \in NamesOfLen(n - 1), c \in NameChars}

FileNames == UNION {NamesOfLen(n) : n \in 1..MaxNameLen}

\* the jsUrl string made of these parts
JsUrl(a) == <<a.prefix>> \o a.name \o <<a.ext>> \o a.suffix

\* new URL(jsUrl) succeeds: only a fully qualified address parses
ParsesAsUrl(s) == s # <<>> /\ s[1] = "http://h/"

\* where the query or fragment of s begins (Len(s) + 1 when it has none)
SearchStart(s) ==
  IF \E i \in 1..Len(s) : s[i] \in {"?v=1", "#main"}
    THEN CHOOSE i \in 1..Len(s) :
           /\ s[i] \in {"?v=1", "#main"}
           /\ \A j \in 1..(i - 1) : s[j] \notin {"?v=1", "#main"}
    ELSE Len(s) + 1

\* length of the run of [a-z0-9] characters s ends with
RECURSIVE TrailingAlnum(_)
TrailingAlnum(s) ==
  IF s # <<>> /\ s[Len(s)] \in Alphanumeric
    THEN 1 + TrailingAlnum(SubSeq(s, 1, Len(s) - 1))
    ELSE 0

\* the optional group (-[a-z0-9]+)? in front of the extension: s without it
WithoutHashGroup(s) ==
  LET k == TrailingAlnum(s) IN
    IF k >= 1 /\ Len(s) > k /\ s[Len(s) - k] = "-"
      THEN SubSeq(s, 1, Len(s) - k - 1)
      ELSE s

\* s.replace(/(-[a-z0-9]+)?\.m?js$/i, '.css') when removeHash, else
\* s.replace(/\.m?js$/, '.css'): both match at the very end of s only
ReplaceExtension(s, removeHash) ==
  IF s = <<>> \/ s[Len(s)] \notin JsExtensions THEN s
  ELSE (IF removeHash THEN WithoutHashGroup(SubSeq(s, 1, Len(s) - 1))
                      ELSE SubSeq(s, 1, Len(s) - 1)) \o <<".css">>

\* deriveCssUrl(jsUrl, {removeHash}): a parsed URL has its pathname replaced
\* and keeps search and hash; anything else is replaced as a plain string
DeriveCssUrl(s, removeHash) ==
  IF ParsesAsUrl(s)
    THEN ReplaceExtension(SubSeq(s, 1, SearchStart(s) - 1), removeHash)
           \o SubSeq(s, SearchStart(s), Len(s))
    ELSE ReplaceExtension(s, removeHash)

InitDerive ==
  /\ InitState
  /\ InitArgs
  /\ InitShell
  /\ head = <<>>
  /\ cssCalls = <<>>
  /\ arg \in [prefix : UrlPrefixes, name : FileNames, ext : JsExtensions,
              suffix : UrlSuffixes, removeHash : BOOLEAN]
  /\ ret = <<>>

\* deriveCssUrl(jsUrl, options) is called and returns
CallDeriveCssUrl ==
  /\ ret = <<>>
  /\ ret' = <<DeriveCssUrl(JsUrl(arg), arg.removeHash)>>
  /\ UNCHANGED <<pc, manifestVars, argVars, retryVars, runVars, slotVars, shellVars,
                 head, cssCalls, arg>>

NextDerive == CallDeriveCssUrl

SpecDerive == InitDerive /\ [][NextDerive]_vars

\* C29: for every address, fully qualified or relative, ending in .mjs or
\* .js optionally followed by a query and/or fragment, deriveCssUrl in default
\* mode returns the same address with only the extension replaced by .css,
\* query and fragment preserved.
C29_DefaultReplacesExtension ==
  (ret # <<>> /\ ~arg.removeHash) =>
    ret[1] = <<arg.prefix>> \o arg.name \o <<".css">> \o arg.suffix

\* the file name without its trailing '-<alphanumeric token>' segment, the
\* name itself when it has none
WithoutTokenSegment(name) ==
  IF \E i \in 1..Len(name) :
       /\ name[i] = "-" /\ i < Len(name)
       /\ \A j \in (i + 1)..Len(name) : name[j] \in Alphanumeric
    THEN SubSeq(name, 1, (CHOOSE i \in 1..Len(name) :
           /\ name[i] = "-" /\ i < Len(name)
           /\ \A j \in (i + 1)..Len(name) : name[j] \in Alphanumeric) - 1)
    ELSE name

\* C30: with removeHash true deriveCssUrl also removes one trailing
\* '-<alphanumeric token>' segment in front of the extension, for absolute
\* and relative addresses, with a query present too; an input without such a
\* segment gives the default-mode result.
C30_RemoveHashStripsToken ==
  (ret # <<>> /\ arg.removeHash) =>
    ret[1] = <<arg.prefix>> \o WithoutTokenSegment(arg.name) \o <<".css">> \o arg.suffix

(* --------- mount / unmount of the shell and of the status remote ------ *)

\* number of mount and unmount calls made on the two modules together
MaxShellCalls == 3

\* createRoot(el) followed by root.render(...) with context ctx
NewRoot(el, m, ctx) == [el |-> el, module |-> m, live |-> TRUE, ctx |-> ctx, renders |-> 1]

\* root.render(...) with context ctx on a root that has not been unmounted
RenderOnto(root, ctx) == [root EXCEPT !.ctx = ctx, !.renders = @ + 1]

\* root.unmount(): the root stops rendering; nothing happens on a root that
\* was unmounted before
Destroyed(root) == [root EXCEPT !.live = FALSE, !.ctx = ""]

\* variant of Recorded: the registry is never found to hold a root
RecordedNever(el) == 0

\* rootRegistry.get(el): the root recorded for el, 0 when undefined
Recorded(el) == rootRegistry[el]

\* variant of MountProceeds: the root is created only once the stylesheet
\* has loaded
MountProceedsIfLoaded(p) == p.status = "resolved"

\* loadCss(...).catch(console.warn) is neither awaited nor inspected: mount
\* goes on whatever the state p of the promise (visibility.tsx:101)
MountProceeds(p) == TRUE

\* the promise the loadCss call of this step returned
CssPromiseOfCall == cssCalls'[Len(cssCalls')].promise

\* the record of a call
Call(fn, m, el, ctx, result, root) ==
  [fn |-> fn, module |-> m, el |-> el, ctx |-> ctx, result |-> result, root |-> root,
   css |-> IF fn = "mount" /\ result # "noop" THEN Len(cssCalls) + 1 ELSE 0]

\* visibility.tsx mount(el, context) (lines 92-123): an async function
\* without await, so it runs to its end within the call. root.render on a
\* root that was unmounted throws, which rejects the promise mount returns.
ShellMount(el, ctx) ==
  /\ ncalls < MaxShellCalls
  /\ ncalls' = ncalls + 1
  /\ LoadCssCall("visibility.css")
  /\ IF ~MountProceeds(CssPromiseOfCall)
       THEN /\ lastCall' = Call("mount", "visibility", el, ctx, "pending", 0)
            /\ UNCHANGED <<rootRegistry, roots>>
     ELSE IF Recorded(el) # 0
       THEN /\ rootRegistry' = rootRegistry
            /\ IF roots[Recorded(el)].live
                 THEN /\ roots' = [roots EXCEPT ![Recorded(el)] = RenderOnto(@, ctx)]
                      /\ lastCall' = Call("mount", "visibility", el, ctx, "resolved", Recorded(el))
                 ELSE /\ roots' = roots
                      /\ lastCall' = Call("mount", "visibility", el, ctx, "rejected", Recorded(el))
       ELSE /\ roots' = Append(roots, NewRoot(el, "visibility", ctx))
            /\ rootRegistry' = [rootRegistry EXCEPT ![el] = Len(roots) + 1]
            /\ lastCall' = Call("mount", "visibility", el, ctx, "resolved", Len(roots) + 1)
  /\ UNCHANGED <<pc, manifestVars, argVars, retryVars, runVars, slotVars, statusRoot, sib, arg, ret>>

\* visibility.tsx unmount(el) (lines 129-131) with an element
ShellUnmount(el) ==
  /\ ncalls < MaxShellCalls
  /\ ncalls' = ncalls + 1
  /\ roots' = IF Recorded(el) # 0 THEN [roots EXCEPT ![Recorded(el)] = Destroyed(@)] ELSE roots
  /\ lastCall' = Call("unmount", "visibility", el, "", "returned", Recorded(el))
  /\ UNCHANGED <<pc, manifestVars, argVars, retryVars, runVars, slotVars, rootRegistry, sib,
                 statusRoot, head, cssCalls, arg, ret>>

\* visibility.tsx unmount() without an element: the test of line 130 fails
ShellUnmountNoElement ==
  /\ ncalls < MaxShellCalls
  /\ ncalls' = ncalls + 1
  /\ lastCall' = Call("unmount", "visibility", "", "", "returned", 0)
  /\ UNCHANGED <<pc, manifestVars, argVars, retryVars, runVars, slotVars, rootRegistry, sib,
                 statusRoot, roots, head, cssCalls, arg, ret>>

\* variant of RootExists: the module-level root is never found set
RootExistsNever == FALSE

\* if (root) return (status.tsx:32)
RootExists == statusRoot # 0

\* status.tsx mount(el, context) (lines 31-43) as the call changes the
\* module and the document: it returns at once while the module-level root
\* is set
StatusMountCall(el, ctx) ==
  /\ ncalls' = ncalls + 1
  /\ IF RootExists
       THEN /\ lastCall' = Call("mount", "status", el, ctx, "noop", 0)
            /\ UNCHANGED <<statusRoot, roots, head, cssCalls>>
       ELSE /\ LoadCssCall("status.css")
            /\ IF MountProceeds(CssPromiseOfCall)
                 THEN /\ roots' = Append(roots, NewRoot(el, "status", ctx))
                      /\ statusRoot' = Len(roots) + 1
                      /\ lastCall' = Call("mount", "status", el, ctx, "resolved", Len(roots) + 1)
                 ELSE /\ lastCall' = Call("mount", "status", el, ctx, "pending", 0)
                      /\ UNCHANGED <<statusRoot, roots>>
  /\ rootRegistry' = rootRegistry

\* status.tsx unmount() (lines 49-52) as the call changes the module
StatusUnmountCall ==
  /\ ncalls' = ncalls + 1
  /\ roots' = IF statusRoot # 0 THEN [roots EXCEPT ![statusRoot] = Destroyed(@)] ELSE roots
  /\ statusRoot' = 0
  /\ lastCall' = Call("unmount", "status", "", "", "returned", statusRoot)
  /\ UNCHANGED <<rootRegistry, head, cssCalls>>

\* a call mount(el, ctx) of the status remote made on its own
StatusMount(el, ctx) ==
  /\ ncalls < MaxShellCalls
  /\ StatusMountCall(el, ctx)
  /\ UNCHANGED <<pc, manifestVars, argVars, retryVars, runVars, slotVars, sib, arg, ret>>

\* a call unmount() of the status remote made on its own
StatusUnmount ==
  /\ ncalls < MaxShellCalls
  /\ StatusUnmountCall
  /\ UNCHANGED <<pc, manifestVars, argVars, retryVars, runVars, slotVars, sib, arg, ret>>

InitRoots ==
  /\ InitState
  /\ InitArgs
  /\ InitEnv

NextRoots ==
  \/ \E el \in ShellEls, ctx \in MountCtxs : ShellMount(el, ctx)
  \/ \E el \in ShellEls : ShellUnmount(el)
  \/ ShellUnmountNoElement
  \/ \E el \in StatusEls, ctx \in MountCtxs : StatusMount(el, ctx)
  \/ StatusUnmount
  \/ \E i \in 1..2 : \E ev \in {"load", "error"} : LinkEvent(i, ev)

SpecRoots == InitRoots /\ [][NextRoots]_vars

\* the roots of element el that currently render
LiveRootsOf(el) == {id \in 1..Len(roots) : roots[id].el = el /\ roots[id].live}

\* the latest call was a mount that went past the stylesheet call
LastIsMount == lastCall.fn = "mount" /\ lastCall.css # 0

IsShellMount(el) ==
  /\ ncalls' = ncalls + 1
  /\ lastCall'.fn = "mount"
  /\ lastCall'.module = "visibility"
  /\ lastCall'.el = el

\* C22: mount(el, ctx) on an element with a recorded root renders the new
\* context onto that root and creates no root; the registry keeps its one
\* entry for the element.
C22_RemountRendersOnRecordedRoot ==
  [][\A el \in ShellEls :
       (IsShellMount(el) /\ Recorded(el) # 0) =>
          /\ Len(roots') = Len(roots)
          /\ rootRegistry' = rootRegistry
          /\ roots'[Recorded(el)].live
          /\ roots'[Recorded(el)].ctx = lastCall'.ctx
          /\ roots'[Recorded(el)].renders = roots[Recorded(el)].renders + 1]_vars

\* C23: after unmount(el) no root is recorded for el.
C23_UnmountRemovesAssociation ==
  (lastCall.fn = "unmount" /\ lastCall.module = "visibility" /\ lastCall.el # "") =>
     rootRegistry[lastCall.el] = 0

\* C24: whatever mount and unmount calls were made, an element has at most
\* one root that renders.
C24_AtMostOneLiveRoot ==
  \A el \in ShellEls \cup StatusEls : Cardinality(LiveRootsOf(el)) <= 1

\* an element mounted again after its first root was destroyed, and an
\* element mounted twice in a row
C24_Witness ==
  \/ \E a, b \in 1..Len(roots) :
       /\ roots[a].el = roots[b].el
       /\ ~roots[a].live
       /\ roots[b].live
  \/ \E a \in 1..Len(roots) : roots[a].live /\ roots[a].renders = 2

\* C25: a mount of the shell module leaves the element with a live root that
\* renders the context of that mount, also when the element was mounted and
\* unmounted before.
C25_MountAfterUnmountRenders ==
  (lastCall.fn = "mount" /\ lastCall.module = "visibility") =>
     \E id \in LiveRootsOf(lastCall.el) : roots[id].ctx = lastCall.ctx

(* ------------------- RemoteSlot components side by side --------------- *)

\* effect runs one slot goes through (first run + re-runs)
MaxSibRuns == 2

\* the div the k-th effect run of slot s creates (line 21)
SibEl(s, k) == s \o ToString(k)

\* how the load of a run ends: the manifest call rejects, loadRemoteWithRetry
\* rejects, or it resolves with the status remote or with a module whose
\* mount throws
SibOutcomes == {"manifestFailed", "loadFailed", "status", "throwing"}

\* the message of the error a failed run is caught with
SibError(o) ==
  CASE o = "manifestFailed" -> Err("Failed to fetch")
    [] o = "loadFailed" -> FinalError(SlotMaxRetries, Err("Load timeout"), "status")
    [] OTHER -> Err("thrown by mount")

\* slot record rec after setState(st) and the render it causes (as SetState)
Rendered(rec, st) ==
  [rec EXCEPT !.state = st,
              !.containerRef = IF st.status = "error" THEN 0
                               ELSE IF rec.containerRef = 0 THEN rec.nextDiv ELSE @,
              !.nextDiv = IF st.status # "error" /\ rec.containerRef = 0 THEN @ + 1 ELSE @]

\* variant of SetStateOf: the status is kept in one place for all slots
SetStateOfAll(f, s, st) == [t \in DOMAIN f |-> Rendered(f[t], st)]

\* setState(st) of slot s: useState is local to the component (line 18)
SetStateOf(f, s, st) == [f EXCEPT ![s] = Rendered(@, st)]

\* slot record rec after the teardown of its run (lines 56-60)
TornDown(rec) == [rec EXCEPT !.cancelled = TRUE, !.elParent = -1, !.pc = "done"]

\* cleanup?.() of the teardown calls the unmount of the status remote
CallsStatusUnmount(rec) == rec.run # 0 /\ rec.cleanup = "status"

\* the effect of slot s runs (lines 20-61): teardown of the previous run,
\* then a new element and the asynchronous function up to its first await.
\* A run that was torn down returns at its next cancelled test without any
\* effect, so only the latest run of a slot is followed.
SibEffectRun(s, ctx) ==
  /\ sib[s].alive
  /\ sib[s].run < MaxSibRuns
  /\ sib' = [sib EXCEPT ![s] =
       [TornDown(@) EXCEPT !.run = @ + 1, !.pc = "loading", !.el = SibEl(s, sib[s].run + 1),
                           !.elParent = sib[s].containerRef, !.ctx = ctx,
                           !.cancelled = FALSE, !.cleanup = ""]]
  /\ IF CallsStatusUnmount(sib[s])
       THEN StatusUnmountCall
       ELSE UNCHANGED <<rootRegistry, statusRoot, roots, lastCall, ncalls, head, cssCalls>>
  /\ UNCHANGED <<pc, manifestVars, argVars, retryVars, runVars, slotVars, arg, ret>>

\* the load of the current run of slot s ends with outcome o and the rest of
\* the asynchronous function runs (lines 38-53)
SibSettle(s, o) ==
  /\ sib[s].pc = "loading"
  /\ ~sib[s].cancelled
  /\ IF o = "status"
       THEN /\ StatusMountCall(sib[s].el, sib[s].ctx)
            /\ sib' = SetStateOf([sib EXCEPT ![s].pc = "done", ![s].cleanup = "status"],
                                 s, SlotState("mounted"))
       ELSE /\ sib' = SetStateOf([sib EXCEPT ![s].pc = "done"], s, SlotError(SibError(o)))
            /\ UNCHANGED <<rootRegistry, statusRoot, roots, lastCall, ncalls, head, cssCalls>>
  /\ UNCHANGED <<pc, manifestVars, argVars, retryVars, runVars, slotVars, arg, ret>>

\* the host discards slot s: teardown of its current run, no new run
SibUnmount(s) ==
  /\ sib[s].alive
  /\ sib[s].run # 0
  /\ sib' = [sib EXCEPT ![s] = [TornDown(@) EXCEPT !.alive = FALSE]]
  /\ IF CallsStatusUnmount(sib[s])
       THEN StatusUnmountCall
       ELSE UNCHANGED <<rootRegistry, statusRoot, roots, lastCall, ncalls, head, cssCalls>>
  /\ UNCHANGED <<pc, manifestVars, argVars, retryVars, runVars, slotVars, arg, ret>>

InitSlots ==
  /\ InitState
  /\ InitArgs
  /\ InitEnv

NextSlots ==
  \/ \E s \in SibIds, ctx \in MountCtxs : SibEffectRun(s, ctx)
  \/ \E s \in SibIds, o \in SibOutcomes : SibSettle(s, o)
  \/ \E s \in SibIds : SibUnmount(s)

SpecSlots == InitSlots /\ [][NextSlots]_vars

\* what the child elements of slot s render: the roots on them
RenderingOf(s) ==
  {roots[id] : id \in {i \in 1..Len(roots) : roots[i].el \in {SibEl(s, k) : k \in 1..MaxSibRuns}}}

\* slot a goes to Error in this step
GoesToError(a) == sib[a].state.status # "error" /\ sib'[a].state.status = "error"

\* C26: the step in which one slot goes to Error leaves every other slot as
\* it was: its state, its child element and where that is attached, and
\* what is rendered on its child element.
C26_FailureStaysInItsSlot ==
  [][\A a \in SibIds : GoesToError(a) =>
       \A b \in SibIds \ {a} :
         /\ sib'[b] = sib[b]
         /\ RenderingOf(b)' = RenderingOf(b)]_vars

\* slot A is in Error next to a slot B that is Mounted and renders
C26_Witness ==
  /\ sib["A"].state.status = "error"
  /\ sib["B"].state.status = "mounted"
  /\ \E r \in RenderingOf("B") : r.live

(* ----------------------- the shell's derived context ------------------ *)

\* values of context fields, each a tuple of strings
ContextEnvs == {<<"development">>, <<"staging">>, <<"production">>}

\* names and values a host may put into the index signature
\* [key: string]: unknown of PortalContext (context.ts:15)
ExtNames == {"additionalProp", "entitlements", "rollout"}
ExtValues == {<<"someValue">>, <<"next">>}

\* { ...base, ...additions }: a key of additions replaces the same key of base
Spread(base, additions) ==
  [f \in DOMAIN base \cup DOMAIN additions |->
     IF f \in DOMAIN additions THEN additions[f] ELSE base[f]]

\* the PortalContext values a host may pass: the required fields and any
\* fields of the index signature
PortalContexts ==
  {Spread([env |-> e, user |-> <<"user123", "admin">>, locale |-> <<"en-US">>], ext) :
     e \in ContextEnvs, ext \in UNION {[D -> ExtValues] : D \in SUBSET ExtNames}}

\* what the shell adds (visibility.tsx:96-97)
ShellAdditions ==
  [entitlements |-> <<"external:overview", "external:details">>, rollout |-> <<"current">>]

\* visibilityContext = { ...context, entitlements: [...], rollout: 'current' }
\* (visibility.tsx:94-98)
DeriveContext(context) == Spread(context, ShellAdditions)

InitContext ==
  /\ InitState
  /\ InitArgs
  /\ InitShell
  /\ head = <<>>
  /\ cssCalls = <<>>
  /\ arg \in PortalContexts
  /\ ret = <<>>

\* mount builds the derived context from the context it was given
CallDeriveContext ==
  /\ ret = <<>>
  /\ ret' = <<DeriveContext(arg)>>
  /\ UNCHANGED <<pc, manifestVars, argVars, retryVars, runVars, slotVars, shellVars,
                 head, cssCalls, arg>>

NextContext == CallDeriveContext

SpecContext == InitContext /\ [][NextContext]_vars

\* C27: the derived context holds every field of the base context it was
\* built from with the base's value, whatever the field's name, and the
\* additions entitlements and rollout.
C27_DerivedKeepsBaseFields ==
  ret # <<>> =>
    /\ \A f \in DOMAIN arg : f \in DOMAIN ret[1] /\ ret[1][f] = arg[f]
    /\ {"entitlements", "rollout"} \subseteq DOMAIN ret[1]

(* ------------------------- RemoteErrorComponent ----------------------- *)

\* context.env of the context the component reads (context.ts:7)
ErrorEnvs == {"development", "staging", "production"}

\* error.message of the RemoteError a slot hands to the component
ErrorMessages ==
  {"Failed to fetch", "Invalid remote manifest", "Failed to load remote after attempts",
   "thrown by mount", "Unknown remote error"}

GenericMessage == "This section is temporarily unavailable."

\* variant of IsDev: the flag of the build (import.meta.env.DEV) decides
IsDevOfBuild(env, buildDev) == buildDev

\* const isDev = context.env === 'development' (line 7)
IsDev(env, buildDev) == env = "development"

\* what RemoteErrorComponent renders for props p under context env p.env in a
\* build whose import.meta.env.DEV is p.buildDev (lines 5-16)
ErrorDisplay(p) ==
  [title |-> p.remote,
   message |-> IF IsDev(p.env, p.buildDev) THEN p.message ELSE GenericMessage,
   devNote |-> IsDev(p.env, p.buildDev)]

InitDisplay ==
  /\ InitState
  /\ InitArgs
  /\ InitShell
  /\ head = <<>>
  /\ cssCalls = <<>>
  /\ arg \in [env : ErrorEnvs, message : ErrorMessages, remote : SlotNames,
              buildDev : BOOLEAN]
  /\ ret = <<>>

\* the slot in Error renders the component (RemoteSlot.tsx:63-65)
RenderError ==
  /\ ret = <<>>
  /\ ret' = <<ErrorDisplay(arg)>>
  /\ UNCHANGED <<pc, manifestVars, argVars, retryVars, runVars, slotVars, shellVars,
                 head, cssCalls, arg>>

NextDisplay == RenderError

SpecDisplay == InitDisplay /\ [][NextDisplay]_vars

\* C28: the display carries the error's message exactly when the context's
\* env is 'development'; under every other env it carries the fixed generic
\* message, and it is the same display whatever the error's message was.
C28_MessageOnlyInDevelopment ==
  ret # <<>> =>
    /\ arg.env = "development" => ret[1].message = arg.message
    /\ arg.env # "development" =>
         /\ ret[1].message = GenericMessage
         /\ ret[1].message # arg.message
         /\ \A m \in ErrorMessages : ErrorDisplay([arg EXCEPT !.message = m]) = ret[1]

\* an error rendered under env 'production' in a development build
C28_Witness ==
  /\ ret # <<>>
  /\ arg.env = "production"
  /\ arg.buildDev
  /\ ret[1].message = GenericMessage

(* --------------------- the slot under fair scheduling ----------------- *)

\* The manifest fetch of every run settles, and the event loop runs every
\* continuation and timer callback that is due. An import() is not required
\* ever to settle, and no effect run or teardown is required to happen.
FairSpec ==
  /\ Spec
  /\ \A r \in Runs :
       /\ WF_vars(FetchSettle(r))
       /\ WF_vars(ParseSettle(r))
       /\ WF_vars(AfterManifest(r))
       /\ WF_vars(TimeoutFires(r))
       /\ WF_vars(BackoffElapsed(r))
       /\ WF_vars(AfterLoad(r))

\* run r has set the slot to Mounted or to Error
Concluded(r) == At(r, "setMounted") # {} \/ At(r, "setError") # {}

\* C31: a run of the slot's effect that is never torn down eventually sets
\* the slot to Mounted or to Error, provided its manifest fetch settles;
\* its imports need not settle.
C31_RunEventuallyConcludes ==
  \A r \in Runs : (cur = r) ~> (cancelled[r] \/ Concluded(r))

\* a run has ended in Error by timeouts alone, no import of it having settled
C31_Witness ==
  /\ cur # 0
  /\ ~cancelled[cur]
  /\ At(cur, "setError") # {}
  /\ state.status = "error"
  /\ state.error.last = "Load timeout"

\* C32: while the slot is Mounted and its current run has not been torn
\* down, the element that run created is a child of the slot's container.
C32_MountedChildAttached ==
  (state.status = "mounted" /\ cur # 0 /\ ~cancelled[cur]) =>
     /\ containerRef # 0
     /\ elParent[cur] = containerRef

\* the teardown of the current run of slot a runs in this step: for a re-run
\* of its effect, or because the host discards the slot
TearsDown(a) ==
  /\ sib[a].run # 0
  /\ \/ sib'[a].run = sib[a].run + 1
     \/ sib[a].alive /\ ~sib'[a].alive

\* C33: the teardown of one slot leaves what every other slot's child
\* elements render as it was: a live root of another slot stays live.
C33_TeardownStaysInItsSlot ==
  [][\A a \in SibIds : TearsDown(a) =>
       \A b \in SibIds \ {a} : RenderingOf(b)' = RenderingOf(b)]_vars

\* a slot calls mount of the status remote in this step
StatusMountCalled ==
  /\ ncalls' = ncalls + 1
  /\ lastCall'.fn = "mount"
  /\ lastCall'.module = "status"

\* a slot's teardown calls unmount of the status remote in this step
StatusUnmountCalled ==
  /\ ncalls' = ncalls + 1
  /\ lastCall'.fn = "unmount"
  /\ lastCall'.module = "status"

ImportSettles(j) == j \in loading[1] /\ j \notin loading'[1]

\* the import that settles is the one the call is racing
IsCurrentRace(j) == pc[1] = "racing" /\ j = attempt[1]

\* C35: the call returns only in the step in which the import of the attempt
\* it is racing settles, and with that import's result; an import that
\* settles late (its attempt timed out, or a later attempt is racing, or the
\* call is over) changes nothing of the call; and a further attempt starts
\* only out of the backoff that followed the failed race of the one before.
C35_OnlyCurrentRaceReturns ==
  [][/\ (lres[1].status = "pending" /\ lres'[1].status = "resolved") =>
          /\ ImportSettles(attempt[1])
          /\ pc[1] = "racing"
          /\ Len(outcomes'[1]) = attempt[1] + 1
          /\ outcomes'[1][attempt[1] + 1].loaded = lres'[1].mod
     /\ \A j \in 0..MaxRetriesBound :
          (ImportSettles(j) /\ ~IsCurrentRace(j)) =>
             UNCHANGED <<pc, lres, attempt, lastError, outcomes, waits, started>>
     /\ (started[1] > 0 /\ started'[1] = started[1] + 1) =>
          /\ pc[1] = "backoff"
          /\ attempt'[1] = attempt[1] + 1
          /\ Len(outcomes[1]) = started[1]
          /\ outcomes[1][started[1]].res # "ok"
          /\ Len(waits[1]) = started[1]]_vars

\* the call has returned the module of its second attempt, and the import of
\* the first attempt, which had timed out, has settled as well
C35_Witness ==
  /\ lres[1].status = "resolved"
  /\ attempt[1] = 1
  /\ Races[1].res = "Load timeout"
  /\ Races[2].res = "ok"
  /\ loading[1] = {}

\* every race run r has recorded ended by a failure of resolveRemoteUrl
OnlyResolutionFailures(r) ==
  /\ outcomes[r] # <<>>
  /\ \A i \in 1..Len(outcomes[r]) :
       outcomes[r][i].res \in {"Unknown remote", "No URL found for remote"}

RequestedVariantAbsent ==
  /\ rctx[1] # "none"
  /\ HasRemote(mres[1].value, rname[1])
  /\ Address(mres[1].value, rname[1], rctx[1]) = ""

\* C37: when the entry of the remote has no address for the rollout the
\* context asks for, every attempt fails with the no-address error and
\* nothing is imported, whether or not the entry has a 'current' address;
\* the 'current' address is imported only for a context without rollout
\* value (or one that asks for 'current').
C37_NoFallbackToCurrent ==
  /\ RequestedVariantAbsent =>
       /\ imported[1] = <<>>
       /\ lres[1].status # "resolved"
       /\ \A i \in 1..Len(Races) : Races[i].res = "No URL found for remote"
  /\ \A i \in 1..Len(imported[1]) :
       imported[1][i].url = Address(mres[1].value, rname[1], "current") =>
          rctx[1] \in {"none", "current"}

\* the call for rollout 'next' has rejected although the entry of the remote
\* has a 'current' address
C37_Witness ==
  /\ rctx[1] = "next"
  /\ rname[1] = "status"
  /\ mres[1].value = "P_B"
  /\ Address(mres[1].value, rname[1], "current") = "u3"
  /\ lres[1].status = "rejected"
  /\ lres[1].error.last = "No URL found for remote"
  /\ imported[1] = <<>>

\* the loadRemoteManifest call of run r rejects in this step
ManifestCallFails(r) == mres[r].status = "pending" /\ mres'[r].status = "rejected"

\* run r calls loadRemoteManifest in this step
ManifestCalled(r) == pc[r] = "idle" /\ pc'[r] # "idle"

\* C38: the step in which a loadRemoteManifest call fails leaves
\* cachedManifest as it was, and a failure is reached only through the
\* call's own fetch; a call made while the cache is empty issues a fetch,
\* whatever has failed before.
C38_FailureLeavesCacheAlone ==
  [][\A r \in Runs :
       /\ ManifestCallFails(r) =>
            /\ cachedManifest' = cachedManifest
            /\ FetchInFlight(r)
       /\ (ManifestCalled(r) /\ cachedManifest = Null) =>
            /\ fetchCount' = fetchCount + 1
            /\ pc'[r] = "fetching"
            /\ mres'[r].status = "pending"]_vars

\* the first run failed on the manifest, the cache is empty, and the second
\* run has issued a fetch of its own
C38_Witness ==
  /\ At(1, "setError") # {}
  /\ cachedManifest = Null
  /\ cur = 2
  /\ pc[2] = "fetching"
  /\ fetchCount = 2

\* a loadCss call is made in this step; LatestCssCall' is its record
CssCallMade == Len(cssCalls') = Len(cssCalls) + 1
LatestCssCall == cssCalls[Len(cssCalls)]

ThrewInMount(r) ==
  \E i \in At(r, "mount") : i < Len(log[r]) /\ log[r][i + 1] = "setError"

\* C40: a throw of mod.mount is caught by the slot. The run sets Error and
\* never Mounted, records no cleanup callback, and its teardown calls no
\* unmount; a cleanup callback is only ever recorded for a module whose mount
\* returned, and only a run with a recorded callback calls unmount.
C40_MountThrowIsCaught ==
  \A r \in Runs :
    /\ ThrewInMount(r) =>
         /\ cleanup[r] = NoMod
         /\ At(r, "cleanupSet") = {}
         /\ At(r, "setMounted") = {}
         /\ At(r, "unmount") = {}
         /\ r = cur => (state.status = "error" /\ state.error.msg = "thrown by mount")
    /\ cleanup[r] # NoMod => ~cleanup[r].mountThrows
    /\ At(r, "setMounted") # {} => cleanup[r] # NoMod
    /\ At(r, "unmount") # {} => cleanup[r] # NoMod

\* a run whose mount threw has been torn down: the element was removed and
\* no unmount was called
C40_Witness ==
  /\ log[1] = <<"mount", "setError", "cancel", "remove">>
  /\ cleanup[1] = NoMod
  /\ cancelled[1]

====
